---- MODULE Spec2Model ----
(***************************************************************************)
(* 1D transient heat conduction in a rod (src/index.js, closure Main):     *)
(* setDefaults, initData and solve, the double-sweep time loop, and the    *)
(* TIMESTEP_DONE listener plotCurrentSolution.                             *)
(*                                                                         *)
(* Numbers.  The simulation clock (_tau, _time, percentDone) is modelled   *)
(* in IEEE 754 binary64 with round-to-nearest-even, as JavaScript computes *)
(* it: the loop test `_time < t_end` is decided by the rounding of the     *)
(* repeated `_time += _tau`.  A binary64 value is held exactly as a        *)
(* fixed-point string of Limbs limbs of LimbBits bits (the first limb is   *)
(* the integer part); every clock value of the runs below lies between    *)
(* 2^-19 and 2^12, where that frame is exact.                              *)
(* The field (_T, _P, _Q, _h, lambda) is modelled over the rationals, in   *)
(* lowest terms; a division by zero or an arithmetic use of `undefined`    *)
(* gives the absorbing non-finite value NaN.                               *)
(***************************************************************************)
EXTENDS Integers, Sequences, FiniteSets, TLC

(* ------------------------------ bounds --------------------------------- *)
\* largest node count _N
MaxN == 7
\* largest node count run with non-zero temperatures (field values are
\* D^-steps fractions, D the determinant of the step matrix)
MaxHotN == 4
\* temperatures T0, Tl, Tr range over 0..MaxTemp
MaxTemp == 2
\* time steps that calls of solve may plan (N-1 each) between two initData
MaxSteps == 6
\* stop times t_end
EndTimes == {1, 7}
\* conductivities _k; the density is chosen so that lambda = _k/2
Conductivities == {1, 2, 4}

(* ------------------------- rational arithmetic ------------------------- *)
Abs(x) == IF x < 0 THEN -x ELSE x

RECURSIVE Gcd(_, _)
Gcd(a, b) == IF b = 0 THEN a ELSE Gcd(b, a % b)

NaN == [n |-> 0, d |-> 0]
Finite(x) == x.d # 0
Norm(n, d) == LET g == Gcd(Abs(n), d) IN [n |-> n \div g, d |-> d \div g]
R(n) == [n |-> n, d |-> 1]
RNeg(x) == [n |-> -x.n, d |-> x.d]
RAdd(x, y) ==
    IF ~Finite(x) \/ ~Finite(y) THEN NaN
    ELSE LET g == Gcd(x.d, y.d)
             l == (x.d \div g) * y.d
         IN Norm(x.n * (l \div x.d) + y.n * (l \div y.d), l)
RSub(x, y) == RAdd(x, RNeg(y))
RMul(x, y) ==
    IF ~Finite(x) \/ ~Finite(y) THEN NaN
    ELSE LET g1 == Gcd(Abs(x.n), y.d)
             g2 == Gcd(Abs(y.n), x.d)
         IN [n |-> (x.n \div g1) * (y.n \div g2), d |-> (x.d \div g2) * (y.d \div g1)]
RDiv(x, y) ==
    IF ~Finite(x) \/ ~Finite(y) \/ y.n = 0 THEN NaN
    ELSE RMul(x, IF y.n < 0 THEN [n |-> -y.d, d |-> -y.n] ELSE [n |-> y.d, d |-> y.n])
RLeq(x, y) == Finite(x) /\ Finite(y) /\ RSub(y, x).n >= 0
RLess(x, y) == Finite(x) /\ Finite(y) /\ RSub(y, x).n > 0


(* ------------------- binary64 arithmetic of the clock ------------------ *)
MantBits == 53
LimbBits == 12
Limbs == 7
Pow2(k) == <<1, 2, 4, 8, 16, 32, 64, 128, 256, 512, 1024, 2048, 4096>>[k + 1]
Base == Pow2(LimbBits)
F64Zero == [j \in 1..Limbs |-> 0]
F64FromNat(n) == [j \in 1..Limbs |-> IF j = 1 THEN n ELSE 0]
\* bit number pos of x, bit 0 being the last limb's lowest bit
Bit(x, pos) == (x[Limbs - (pos \div LimbBits)] \div Pow2(pos % LimbBits)) % 2
BitLen(n) == CHOOSE k \in 0..LimbBits : (k = 0 /\ n = 0) \/ (k > 0 /\ Pow2(k - 1) <= n /\ n < Pow2(k))
\* the position of the leading one of a non-zero x whose top limb is below Base
Msb(x) == LET t == CHOOSE j \in 1..Limbs : x[j] # 0 /\ \A q \in 1..(j - 1) : x[q] = 0
          IN (Limbs - t) * LimbBits + BitLen(x[t]) - 1
RECURSIVE AddLimbs(_, _, _, _)
\* limbs j..1 of a + b with carry c into limb j; the top limb takes the last carry
AddLimbs(a, b, j, c) ==
    LET s == a[j] + b[j] + c
    IN IF j = 1 THEN <<s>>
       ELSE Append(AddLimbs(a, b, j - 1, s \div Base), s % Base)
F64Sum(a, b) == AddLimbs(a, b, Limbs, 0)
\* x with the bits below position cut cleared
Chop(x, cut) ==
    [j \in 1..Limbs |->
        LET lo == (Limbs - j) * LimbBits
        IN IF cut <= lo THEN x[j]
           ELSE IF cut >= lo + LimbBits THEN 0
           ELSE (x[j] \div Pow2(cut - lo)) * Pow2(cut - lo)]
Ulp(cut) == [j \in 1..Limbs |-> IF j = Limbs - (cut \div LimbBits) THEN Pow2(cut % LimbBits) ELSE 0]
\* round-to-nearest, ties-to-even, of x (plus a non-zero tail when sticky) to 53 significant bits
F64Round(x, sticky) ==
    IF x = F64Zero THEN x
    ELSE LET cut == Msb(x) - (MantBits - 1)
         IN IF cut <= 0 THEN x
            ELSE LET g == Bit(x, cut - 1)
                     rest == sticky \/ \E q \in 0..(cut - 2) : Bit(x, q) = 1
                     up == g = 1 /\ (rest \/ Bit(x, cut) = 1)
                 IN IF up THEN F64Sum(Chop(x, cut), Ulp(cut)) ELSE Chop(x, cut)
F64Add(a, b) == F64Round(F64Sum(a, b), FALSE)
F64Less(a, b) == \E j \in 1..Limbs : a[j] < b[j] /\ \A q \in 1..(j - 1) : a[q] = b[q]
RECURSIVE DivLimbs(_, _, _, _)
\* schoolbook division of limbs j..Limbs of x by d with remainder r carried in
DivLimbs(x, d, j, r) ==
    LET v == r * Base + x[j]
    IN IF j = Limbs THEN <<v \div d, v % d>>
       ELSE <<v \div d>> \o DivLimbs(x, d, j + 1, v % d)
F64DivNat(x, d) ==
    LET qr == DivLimbs(x, d, 1, 0)
    IN F64Round(SubSeq(qr, 1, Limbs), qr[Limbs + 1] # 0)


(* ------------------------------- state --------------------------------- *)
VARIABLES
    pc,         \* where the program is: new, configured, allocated, while, sweep, back, event, done
    N, L, k, rho, c, t_start,       \* _N, _L, _k, _rho, _c, _t_start
    T0, Tl, Tr, t_end,              \* the public fields of Main
    h, tau,                         \* _h (rational), _tau (binary64)
    T, P, Q,                        \* the arrays _T, _P, _Q; index j of the source is element j+1
    time,                           \* _time (binary64)
    lambda, i,                      \* the locals of solve
    calls,      \* calls of solve since initData
    planned,    \* time steps those calls planned, N-1 each
    steps,      \* iterations of the while loop begun in the current call
    Told,       \* _T when the current iteration began
    seen,       \* what plotCurrentSolution read at each TIMESTEP_DONE of the current call
    seen1       \* seen of the first call after initData, once that call has returned

params == <<N, L, k, rho, c, t_start, T0, Tl, Tr, t_end>>
arrays == <<T, P, Q>>
ghosts == <<calls, planned, steps, Told, seen, seen1>>
vars == <<pc, params, h, tau, arrays, time, lambda, i, ghosts>>

(* ------------------------------ helpers -------------------------------- *)
\* a[j] of a JavaScript array: undefined past the end, NaN in arithmetic
Get(a, j) == IF j >= 0 /\ j < Len(a) THEN a[j + 1] ELSE NaN
\* a[j] = v: the array grows when j is past the end, leaving holes
Put(a, j, v) ==
    IF j < Len(a) THEN [a EXCEPT ![j + 1] = v]
    ELSE [q \in 1..(j + 1) |-> IF q <= Len(a) THEN a[q] ELSE IF q = j + 1 THEN v ELSE NaN]

zeros(n) == [j \in 1..n |-> R(0)]

\* _h = _L / (_N-1)
MeshSize(len, n) == RDiv(R(len), R(n - 1))
\* _tau = (t_end - _t_start) / (_N-1), in binary64
TimeStep(te, ts, n) == F64DivNat(F64FromNat(te - ts), n - 1)
\* the exact quotient that _tau rounds
TauQ == RDiv(R(t_end - t_start), R(N - 1))

\* _k/(_c*_rho)*_tau/(_h*_h)
Lambda == RDiv(RMul(RDiv(R(k), R(c * rho)), TauQ), RMul(h, h))

\* for (i = 0; i < _N-1; i++) _T[i] = T0
InitialT(a) == [j \in 1..(IF Len(a) > N - 1 THEN Len(a) ELSE N - 1) |->
                   IF j <= N - 1 THEN R(T0) ELSE a[j]]

\* the denominator with the sign of bi lost: ai * _P[i-1] + (1 + 2*lambda)
DenomPlusB(p, j, lam) == RAdd(RMul(lam, Get(p, j - 1)), RAdd(R(1), RMul(R(2), lam)))
\* ai * _P[i-1] + bi
Denom(p, j, lam) == RAdd(RMul(lam, Get(p, j - 1)), RNeg(RAdd(R(1), RMul(R(2), lam))))
\* _P[i] = - ci / (ai * _P[i-1] + bi)
SweepP(p, j, lam) == RDiv(RNeg(lam), Denom(p, j, lam))
\* _Q[i] = (di - ai * _Q[i-1]) / (ai * _P[i-1] + bi), di = -1 * _T[i]
SweepQ(p, q, t, j, lam) ==
    RDiv(RSub(RMul(R(-1), Get(t, j)), RMul(lam, Get(q, j - 1))), Denom(p, j, lam))
\* _T[i] = _P[i] * _T[i+1] + _Q[i]
BackT(p, q, t, j) == RAdd(RMul(Get(p, j), Get(t, j + 1)), Get(q, j))

\* the getter percentDone: _time / t_end
percentDone == F64DivNat(time, t_end)

(* ------------------------------ actions -------------------------------- *)
\* var _T = [], _P = [], _Q = []; new Main()
Init ==
    /\ pc = "new"
    /\ N = 0 /\ L = 0 /\ k = 0 /\ rho = 0 /\ c = 0 /\ t_start = 0
    /\ T0 = 0 /\ Tl = 0 /\ Tr = 0 /\ t_end = 0
    /\ h = R(0) /\ tau = F64Zero
    /\ T = <<>> /\ P = <<>> /\ Q = <<>>
    /\ time = F64Zero /\ lambda = R(0) /\ i = 0
    /\ calls = 0 /\ planned = 0 /\ steps = 0 /\ Told = <<>> /\ seen = <<>> /\ seen1 = <<>>

\* setDefaults, with the values of the run written in place of the literals
setDefaults(n, kk, te, a, b, r) ==
    /\ pc = "new"
    /\ N' = n /\ L' = 1 /\ k' = kk /\ c' = 1 /\ rho' = 2 * te * (n - 1)
    /\ T0' = a /\ Tl' = b /\ Tr' = r
    /\ t_start' = 0 /\ t_end' = te
    /\ pc' = "configured"
    /\ UNCHANGED <<h, tau, arrays, time, lambda, i, ghosts>>

initData ==
    /\ pc = "configured"
    /\ h' = MeshSize(L, N)
    /\ tau' = TimeStep(t_end, t_start, N)
    /\ T' = zeros(N) /\ P' = zeros(N) /\ Q' = zeros(N)
    /\ calls' = 0 /\ planned' = 0 /\ steps' = 0 /\ Told' = <<>> /\ seen' = <<>> /\ seen1' = <<>>
    /\ pc' = "allocated"
    /\ UNCHANGED <<params, time, lambda, i>>

\* onSimulateClick, up to its call of solve: setDefaults(), initData(), then
\* T0, Tl, Tr from the input fields
onSimulateClick(n, kk, te, a, b, r) ==
    /\ pc = "done"
    /\ N' = n /\ L' = 1 /\ k' = kk /\ c' = 1 /\ rho' = 2 * te * (n - 1)
    /\ t_start' = 0 /\ t_end' = te
    /\ h' = MeshSize(1, n)
    /\ tau' = TimeStep(te, 0, n)
    /\ T' = zeros(n) /\ P' = zeros(n) /\ Q' = zeros(n)
    /\ T0' = a /\ Tl' = b /\ Tr' = r
    /\ calls' = 0 /\ planned' = 0 /\ steps' = 0 /\ Told' = <<>> /\ seen' = <<>> /\ seen1' = <<>>
    /\ pc' = "allocated"
    /\ UNCHANGED <<time, lambda, i>>

\* solve, up to the while loop
solve ==
    /\ pc \in {"allocated", "done"}
    /\ planned + (N - 1) <= MaxSteps
    /\ lambda' = Lambda
    /\ T' = InitialT(T)
    /\ time' = F64FromNat(t_start)
    /\ i' = N - 1
    /\ calls' = calls + 1 /\ planned' = planned + (N - 1)
    /\ steps' = 0 /\ seen' = <<>> /\ Told' = <<>>
    /\ pc' = "while"
    /\ UNCHANGED <<params, h, tau, P, Q, seen1>>

\* while (_time < t_end) holds: _time += _tau; _P[0] = 0; _Q[0] = Tl
whileTrue ==
    /\ pc = "while"
    /\ F64Less(time, F64FromNat(t_end))
    /\ time' = F64Add(time, tau)
    /\ P' = Put(P, 0, R(0))
    /\ Q' = Put(Q, 0, R(Tl))
    /\ i' = 1
    /\ steps' = steps + 1 /\ Told' = T
    /\ pc' = "sweep"
    /\ UNCHANGED <<params, h, tau, T, lambda, calls, planned, seen, seen1>>

\* one pass of for (i = 1; i < _N; i++)
sweep ==
    /\ pc = "sweep"
    /\ i < N
    /\ P' = Put(P, i, SweepP(P, i, lambda))
    /\ Q' = Put(Q, i, SweepQ(P, Q, T, i, lambda))
    /\ i' = i + 1
    /\ UNCHANGED <<pc, params, h, tau, T, time, lambda, ghosts>>

\* _T[_N] = Tr, entering the back substitution
setRight ==
    /\ pc = "sweep"
    /\ ~(i < N)
    /\ T' = Put(T, N, R(Tr))
    /\ i' = N - 1
    /\ pc' = "back"
    /\ UNCHANGED <<params, h, tau, P, Q, time, lambda, ghosts>>

\* one pass of for (i = _N - 1; i > 0; i--)
backSubst ==
    /\ pc = "back"
    /\ i > 0
    /\ T' = Put(T, i, BackT(P, Q, T, i))
    /\ i' = i - 1
    /\ UNCHANGED <<pc, params, h, tau, P, Q, time, lambda, ghosts>>

\* the dispatch issued one pass early, before _T[1] is written
callEventEarly ==
    /\ pc = "back"
    /\ ~(i > 1)
    /\ pc' = "event"
    /\ UNCHANGED <<params, h, tau, arrays, time, lambda, i, ghosts>>

\* dispatcher.callEvent("TIMESTEP_DONE"): the listener is entered
callEvent ==
    /\ pc = "back"
    /\ ~(i > 0)
    /\ pc' = "event"
    /\ UNCHANGED <<params, h, tau, arrays, time, lambda, i, ghosts>>

\* the listener reads percentDone and the field, and returns to the loop
plotCurrentSolution ==
    /\ pc = "event"
    /\ seen' = Append(seen, [T |-> T, percentDone |-> percentDone])
    /\ pc' = "while"
    /\ UNCHANGED <<params, h, tau, arrays, time, lambda, i, calls, planned, steps, Told, seen1>>

\* while (_time < t_end) fails: solve returns (log is false in both callers)
whileFalse ==
    /\ pc = "while"
    /\ ~F64Less(time, F64FromNat(t_end))
    /\ seen1' = IF calls = 1 THEN seen ELSE seen1
    /\ pc' = "done"
    /\ UNCHANGED <<params, h, tau, arrays, time, lambda, i, calls, planned, steps, Told, seen>>

Temps == 0..MaxTemp

\* the runs modelled: any node count with the rod at 0 K throughout, and the
\* small meshes with lambda = 1 at any temperatures
Run(n, kk, a, b, r) == (a = 0 /\ b = 0 /\ r = 0) \/ (n <= MaxHotN /\ kk = 2)

Next ==
    \/ \E n \in 3..MaxN, kk \in Conductivities, te \in EndTimes, a \in Temps, b \in Temps, r \in Temps :
          Run(n, kk, a, b, r) /\ setDefaults(n, kk, te, a, b, r)
    \/ \E n \in 3..MaxN, kk \in Conductivities, te \in EndTimes, a \in Temps, b \in Temps, r \in Temps :
          Run(n, kk, a, b, r) /\ onSimulateClick(n, kk, te, a, b, r)
    \/ initData
    \/ solve
    \/ whileTrue
    \/ sweep
    \/ setRight
    \/ backSubst
    \/ callEvent
    \/ plotCurrentSolution
    \/ whileFalse

Spec == Init /\ [][Next]_vars

(* ------------------------------ properties ----------------------------- *)
Interior == 1..(N - 1)
One == F64FromNat(1)
Min3(a, b, r) == IF a <= b /\ a <= r THEN a ELSE IF b <= r THEN b ELSE r
Max3(a, b, r) == IF a >= b /\ a >= r THEN a ELSE IF b >= r THEN b ELSE r
\* a time step has completed: the listener runs, or solve has returned
StepDone == pc \in {"event", "done"} /\ steps >= 1
Fields(s) == [j \in 1..Len(s) |-> s[j].T]

\* C1: after every completed time step, at each TIMESTEP_DONE and at return,
\* T[0] equals Tl and T[N] equals Tr.
C1_BoundaryFidelity ==
    StepDone => Get(T, 0) = R(Tl) /\ Get(T, N) = R(Tr)

\* C2: when solve returns, the loop has run exactly N-1 times and _time
\* equals t_end.
C2_StepCount ==
    pc = "done" => steps = N - 1 /\ time = F64FromNat(t_end)

\* C3: TIMESTEP_DONE is issued once per iteration, after the back
\* substitution has written every interior node and before _time advances
\* again; the field does not change while the listener runs; the listener
\* has run as many times as there were time steps.
C3_Inv ==
    /\ pc = "event" =>
          /\ i = 0
          /\ Len(seen) + 1 = steps
          /\ \A j \in Interior : Get(T, j) = BackT(P, Q, T, j)
    /\ pc \in {"sweep", "back"} => Len(seen) + 1 = steps
    /\ pc \in {"while", "done"} => Len(seen) = steps
C3_Step ==
    /\ pc = "event" => T' = T /\ time' = time
    /\ F64Less(time, time') => pc = "while" /\ Len(seen) = steps
    /\ Len(seen') > Len(seen) => pc = "event" /\ Len(seen') = Len(seen) + 1
C3_NotificationOrder == []C3_Inv /\ [][C3_Step]_vars
C3_Witness == pc = "event" /\ steps >= 2 /\ Get(T, 1) # Get(Told, 1)

\* C4: on storage fresh from initData, with T0 between Tl and Tr, every
\* interior value lies in [min(Tl,T0,Tr), max(Tl,T0,Tr)] after every
\* completed time step.
C4_MaximumPrinciple ==
    (StepDone /\ calls = 1 /\ Min3(Tl, Tr, Tr) <= T0 /\ T0 <= Max3(Tl, Tr, Tr)) =>
        \A j \in Interior :
            /\ RLeq(R(Min3(Tl, T0, Tr)), Get(T, j))
            /\ RLeq(Get(T, j), R(Max3(Tl, T0, Tr)))

\* C5: the field after a time step solves the implicit system against the
\* field before it, with the stored T[0] and T[N] as neighbours of the end
\* nodes: -lambda*T[j-1] + (1+2*lambda)*T[j] - lambda*T[j+1] = Told[j].
Residual(t, j, lam) ==
    RSub(RSub(RMul(RAdd(R(1), RMul(R(2), lam)), Get(t, j)), RMul(lam, Get(t, j - 1))),
         RMul(lam, Get(t, j + 1)))
C5_ImplicitStep ==
    pc = "event" => \A j \in Interior : Residual(T, j, lambda) = Get(Told, j)

\* C6: when a call of solve reaches its first loop test, every interior node
\* holds T0.
C6_InitialCondition ==
    (pc = "while" /\ steps = 0) => \A j \in Interior : Get(T, j) = R(T0)

\* C7: a call of solve re-entered without initData has notified the same
\* sequence of fields as the first call after initData.
C7_Determinism ==
    (pc = "done" /\ calls >= 2) => Fields(seen) = Fields(seen1)

\* C8: the percentDone read at each TIMESTEP_DONE is at most 1, larger than
\* the one before, and 1 at the last notification of the run.
C8_ProgressFraction ==
    /\ \A j \in 1..Len(seen) : ~F64Less(One, seen[j].percentDone)
    /\ \A j \in 1..(Len(seen) - 1) : F64Less(seen[j].percentDone, seen[j + 1].percentDone)
    /\ (pc = "done" /\ seen # <<>>) => seen[Len(seen)].percentDone = One

\* C9: after initData the field has N+1 zero entries and P, Q have N; in
\* solve the lengths stay N+1 and N, and no entry is non-finite.
C9_StorageSizing ==
    /\ pc = "allocated" => T = zeros(N + 1) /\ P = zeros(N) /\ Q = zeros(N)
    /\ pc \in {"while", "sweep", "back", "event", "done"} =>
          /\ Len(T) = N + 1 /\ Len(P) = N /\ Len(Q) = N
          /\ \A j \in 1..N : Finite(P[j]) /\ Finite(Q[j]) /\ Finite(T[j])

\* C10: every forward-sweep denominator lambda*P[i-1] - (1+2*lambda) is at
\* most -(1+lambda), every P[i] lies in [0,1), and no value of the sweep or of
\* the field is non-finite.
C10_Pivot ==
    pc \in {"while", "sweep", "back", "event", "done"} =>
        /\ \A j \in 1..Len(P) : RLeq(R(0), P[j]) /\ RLess(P[j], R(1))
        /\ (pc = "sweep" /\ i < N) =>
              RLeq(Denom(P, i, lambda), RNeg(RAdd(R(1), lambda)))
        /\ \A j \in 1..Len(Q) : Finite(Q[j])
        /\ \A j \in 1..Len(T) : Finite(T[j])
C10_Witness == pc = "sweep" /\ i = N - 1 /\ N = 3 /\ lambda = R(2) /\ RLess(R(0), Get(P, 1))
====
